---- MODULE Spec2Model ----
(***************************************************************************)
(* Harmonify: runtime patching of Python callables.                        *)
(*                                                                         *)
(* The wrap engine exists in two revisions, src/harmonify.py (the class    *)
(* Harmonify) and src/core.py (module level functions); a program loads    *)
(* one of them (variable rev).  The injection engine is                    *)
(* src/src/harmonify/injector/method_inject.py and function_patch.py.      *)
(*                                                                         *)
(* Python objects are records tagged by the field k.  Keyword arguments    *)
(* are not modelled: every call passes positional arguments only.          *)
(***************************************************************************)
EXTENDS Integers, Sequences, FiniteSets, TLC

VARIABLES
    rev,                 \* the wrap engine revision the program loaded
    attrs,               \* the __dict__ of every container: own attributes only
    _patches,            \* core._patches / Harmonify._patches
    _method_injections,  \* method_inject._method_injections
    _injections,         \* function_patch._injections
    namespaces,          \* per rebuilt function, the copy of globals it was executed in
    nextId,              \* how many function objects the engines have created
    ret,                 \* the last operation and what it returned or raised
    hist,                \* history: per identity, the patches since the last unpatch
    ihist,               \* history: per identity, the method injections since the last undo
    threads              \* per thread, where its patch_method call stands and its locals

vars == <<rev, attrs, _patches, _method_injections, _injections, namespaces,
         nextId, ret, hist, ihist, threads>>

\* How many function objects (dispatchers, rebuilt functions) the engines create.
MaxObjects == 2

\* How many threads call patch_method at the same time.
MaxThreads == 2
Threads == 1..MaxThreads

----------------------------------------------------------------------------
(* The program under patch: class Base with one method m (a plain function, *)
(* a staticmethod or a classmethod) and a data attribute d, class Sub(Base) *)
(* with nothing of its own, module Mod with the function get_info and the   *)
(* data attribute d.                                                        *)

Revisions  == {"core", "harmonify"}
Classes    == {"Base", "Sub"}
Modules    == {"Mod"}
Containers == Classes \cup Modules
Names      == {"m", "get_info", "d", "z"}
Identities == Containers \X Names
Kinds      == {"function", "staticmethod", "classmethod"}

\* The method resolution order of a container: Sub inherits from Base.
MRO(c) == IF c = "Sub" THEN <<"Sub", "Base">> ELSE <<c>>

None     == [k |-> "None"]
Absent   == [k |-> "absent"]
Data     == [k |-> "data"]
Value    == [k |-> "value"]
ClassObj(c)  == [k |-> "class", name |-> c]
Instance(c)  == [k |-> "instance", of |-> c]

\* A function object: id 0 is a function the program's own source defines.
\* decor is the decorator its source text carries, origin tells a function of the
\* program's files from one the injection engine compiled.
Function(id, name, params, body, origin, decor) ==
    [k |-> "function", id |-> id, name |-> name, params |-> params,
     body |-> body, origin |-> origin, decor |-> decor]
StaticMethod(f)   == [k |-> "staticmethod", f |-> f]
ClassMethod(f)    == [k |-> "classmethod", f |-> f]
BoundMethod(f, s) == [k |-> "method", f |-> f, self |-> s]

\* A statement of a function body: its line in the function's own source.
Stmt(line, text) == [line |-> line, text |-> text]

\* def m(self, x) / def m(x) under @staticmethod / def m(cls, x) under
\* @classmethod: a decorator takes the first line of the source.
MethodOfKind(kind) ==
    LET first == IF kind = "function" THEN 2 ELSE 3
        f == Function(0, "m", IF kind = "staticmethod" THEN 1 ELSE 2,
                      <<Stmt(first, "a"), Stmt(first + 1, "b")>>, "file",
                      IF kind = "function" THEN "" ELSE kind)
    IN  CASE kind = "function"     -> f
          [] kind = "staticmethod" -> StaticMethod(f)
          [] kind = "classmethod"  -> ClassMethod(f)

\* def get_info(): return {"name": "x"}
GetInfo == Function(0, "get_info", 0, <<Stmt(2, "a")>>, "file", "")

\* The body handed to create_method.
NewBody == Function(0, "body", 2, <<Stmt(2, "c")>>, "file", "")

----------------------------------------------------------------------------
(* Attribute access.                                                        *)

\* inspect.getattr_static / the raw attribute along the MRO, Absent if none.
RECURSIVE LookupIn(_, _, _)
LookupIn(at, mro, n) ==
    IF mro = <<>> THEN Absent
    ELSE IF at[<<Head(mro), n>>] # Absent THEN at[<<Head(mro), n>>]
    ELSE LookupIn(at, Tail(mro), n)

Lookup(at, c, n) == LookupIn(at, MRO(c), n)

IsFunction(o) == o.k \in {"function", "dispatcher"}

\* The descriptor protocol: o.__get__(inst, cls); inst is None on class access.
RECURSIVE DescrGet(_, _, _)
DescrGet(o, inst, c) ==
    CASE IsFunction(o)         -> IF inst = None THEN o ELSE BoundMethod(o, inst)
      [] o.k = "staticmethod"  -> o.f
      [] o.k = "classmethod"   ->
            IF IsFunction(o.f) \/ o.f.k \in {"staticmethod", "classmethod", "method"}
            THEN DescrGet(o.f, ClassObj(c), c)
            ELSE BoundMethod(o.f, ClassObj(c))
      [] OTHER                 -> o

\* getattr(container, name, None): a module hands out the raw attribute, a class
\* binds it.
GetAttr(at, c, n) ==
    LET raw == Lookup(at, c, n)
    IN  IF raw = Absent THEN None
        ELSE IF c \in Modules THEN raw
        ELSE DescrGet(raw, None, c)

\* The attribute as an instance of class c sees it (instances own nothing).
GetAttrInstance(at, c, n) ==
    LET raw == Lookup(at, c, n)
    IN  IF raw = Absent THEN None ELSE DescrGet(raw, Instance(c), c)

\* Faulty variant: the guard tests for None instead of callable().
NotNone(o) == o # None

\* callable(o)
Callable(o) == IsFunction(o) \/ o.k \in {"method", "staticmethod"}

----------------------------------------------------------------------------
(* Hooks and flow control.                                                  *)

CONTINUE_EXEC            == "continue"
CONTINUE_WITHOUT_POSTFIX == "continue_npf"
STOP_EXEC                == "stop"
FlowStates == {CONTINUE_EXEC, CONTINUE_WITHOUT_POSTFIX, STOP_EXEC}

\* A prefix hook: the flow state it yields, the length of the tuple it returns
\* ((result, flow_state) or (result, new_args, new_kwds, flow_state)) and whether
\* its new_args differ from the arguments it was given.
PrefixHook(flow, shape, rewrite) ==
    [k |-> "prefix", flow |-> flow, shape |-> shape, rewrite |-> rewrite]
PostfixHook == [k |-> "postfix"]
ReplaceHook == [k |-> "replace"]

PrefixHooks ==
    {PrefixHook(f, 2, FALSE) : f \in FlowStates}
        \cup {PrefixHook(f, 4, r) : f \in FlowStates, r \in BOOLEAN}

HookSet(prefix, postfix, replace) ==
    [prefix |-> prefix, postfix |-> postfix, replace |-> replace]

AllHookSets ==
    {HookSet(p, q, r) : p \in PrefixHooks \cup {None},
                        q \in {PostfixHook, None}, r \in {ReplaceHook, None}}

\* The hook sets the registry specification patches with.
FewHookSets ==
    {HookSet(None, PostfixHook, None), HookSet(None, None, ReplaceHook)}

----------------------------------------------------------------------------
(* Calls.  A call yields the events it ran, in order, and a value or an     *)
(* exception.  Hooks and program functions are uninterpreted: the value of  *)
(* one is the term (who computed it, on which arguments).                   *)

Result(by, args) == [k |-> "result", by |-> by, args |-> args]
Returned(trace, val) == [trace |-> trace, val |-> val, raised |-> FALSE]
Raised(trace, type)  == [trace |-> trace, val |-> [k |-> "error", type |-> type],
                         raised |-> TRUE]

Event(ev, by, args) == [ev |-> ev, by |-> by, args |-> args]
ByDispatcher(d) == [d |-> d.id]
ByCode(f)       == [code |-> f.body]

\* The new_args of a prefix hook that rewrites its arguments.
Rewritten(args) == [i \in 1..Len(args) |-> [k |-> "rewritten", was |-> args[i]]]

\* The tuple length the dispatcher of a revision unpacks the prefix's return into.
PrefixShape(r) == IF r = "core" THEN 4 ELSE 2

RECURSIVE Call(_, _)

\* Faulty variant: the replace hook is consulted only when there is no prefix hook.
OverridesWithoutPrefix(d) == d.replace # None /\ d.prefix = None

\* if replace:
Overrides(d) == d.replace # None

\* if flow_state != STOP_EXEC:
RunsOriginal(flow) == flow # STOP_EXEC

\* Faulty variant: the postfix is gated on STOP only.
RunsPostfixUnlessStopped(d, flow) == d.postfix # None /\ flow # STOP_EXEC

\* if postfix and flow_state == CONTINUE_EXEC:
RunsPostfix(d, flow) == d.postfix # None /\ flow = CONTINUE_EXEC

\* Whether new_args is bound when the original is called: the method form of
\* core.py starts from new_args = args, its function form binds new_args only in
\* the prefix branch; harmonify.py passes args.
NewArgsBound(d) == d.rev = "harmonify" \/ d.form = "method" \/ d.prefix # None

\* The arguments the original is called with, after the instance.
NewArgs(d, rest) ==
    IF d.rev = "core" /\ d.prefix # None /\ d.prefix.rewrite
    THEN Rewritten(rest) ELSE rest

\* patched_method(instance, *args) and patched_function(*args): d is the closure,
\* args the whole argument list, the instance first for a method.
Dispatch(d, args) ==
    LET isMethod  == d.form = "method"
        rest      == IF isMethod THEN Tail(args) ELSE args
        atReplace == <<Event("replace", ByDispatcher(d), args)>>
        atPrefix  == IF d.prefix # None
                     THEN <<Event("prefix", ByDispatcher(d), args)>> ELSE <<>>
        flow      == IF d.prefix # None THEN d.prefix.flow ELSE CONTINUE_EXEC
        preResult == IF d.prefix # None THEN Result(d.prefix, args) ELSE None
        origArgs  == IF isMethod THEN <<Head(args)>> \o NewArgs(d, rest)
                     ELSE NewArgs(d, rest)
        atOrig    == <<Event("original", ByDispatcher(d), origArgs)>>
        inner     == Call(d.original, origArgs)
        postArgs(r) == IF isMethod THEN <<Head(args), r>> \o rest ELSE <<r>> \o rest
        afterOrig(tr, r) ==
            IF RunsPostfix(d, flow)
            THEN Returned(tr \o <<Event("postfix", ByDispatcher(d), postArgs(r))>>,
                          Result(d.postfix, postArgs(r)))
            ELSE Returned(tr, r)
    IN  IF isMethod /\ args = <<>> THEN Raised(<<>>, "TypeError")
        ELSE IF Overrides(d) THEN Returned(atReplace, Result(d.replace, args))
        ELSE IF d.prefix # None /\ d.prefix.shape # PrefixShape(d.rev)
             THEN Raised(atPrefix, "ValueError")
        ELSE IF ~RunsOriginal(flow) THEN afterOrig(atPrefix, preResult)
        ELSE IF ~NewArgsBound(d) THEN Raised(atPrefix, "UnboundLocalError")
        ELSE IF inner.raised
             THEN Raised(atPrefix \o atOrig \o inner.trace, inner.val.type)
        ELSE afterOrig(atPrefix \o atOrig \o inner.trace, inner.val)

Call(o, args) ==
    CASE o.k = "function" ->
            IF Len(args) = o.params
            THEN Returned(<<Event("body", ByCode(o), args)>>, Result(ByCode(o), args))
            ELSE Raised(<<>>, "TypeError")
      [] o.k = "dispatcher"   -> Dispatch(o, args)
      [] o.k = "method"       -> Call(o.f, <<o.self>> \o args)
      [] o.k = "staticmethod" -> Call(o.f, args)
      [] OTHER                -> Raised(<<>>, "TypeError")

----------------------------------------------------------------------------
(* The wrap engine: src/core.py and src/harmonify.py.                       *)

Bool(b) == [k |-> "bool", v |-> b]
Error(type) == [k |-> "error", type |-> type]

\* What an operation leaves behind: its name, its target, what it returned or
\* raised, and the raw attribute the target resolved to before it ran.
Ret(op, c, n, out, pre) ==
    [op |-> op, target |-> <<c, n>>, out |-> out, pre |-> pre,
     via |-> "", args |-> <<>>, trace |-> <<>>]

NoHistory == [n |-> 0, pre |-> Absent]

\* Faulty variant: every patch overwrites the record.
CaptureLatest(reg, key, original) == [reg EXCEPT ![key] = original]

\* if patch_key not in _patches: _patches[patch_key] = original
Capture(reg, key, original) ==
    IF reg[key] = Absent THEN [reg EXCEPT ![key] = original] ELSE reg

\* setattr(container, name, value)
SetAttr(at, c, n, value) == [at EXCEPT ![<<c, n>>] = value]

\* The closure patch_method / patch_function builds.
Dispatcher(id, form, r, original, hs) ==
    [k |-> "dispatcher", id |-> id, form |-> form, rev |-> r, original |-> original,
     prefix |-> hs.prefix, postfix |-> hs.postfix, replace |-> hs.replace]

\* The history of an identity after a patch that returned true.
Patched(h, original) ==
    IF h.n = 0 THEN [n |-> 1, pre |-> original] ELSE [h EXCEPT !.n = @ + 1]

\* The body shared by patch_method and patch_function.
Patch(op, form, c, n, hs) ==
    LET original == GetAttr(attrs, c, n)
        pre      == Lookup(attrs, c, n)
    IN  IF ~Callable(original)
        THEN /\ ret' = Ret(op, c, n, Bool(FALSE), pre)
             /\ UNCHANGED <<rev, attrs, _patches, _method_injections, _injections, namespaces, nextId, hist, ihist, threads>>
        ELSE /\ nextId < MaxObjects
             /\ _patches' = Capture(_patches, <<c, n>>, original)
             /\ attrs' = SetAttr(attrs, c, n,
                                 Dispatcher(nextId + 1, form, rev, original, hs))
             /\ nextId' = nextId + 1
             /\ hist' = [hist EXCEPT ![<<c, n>>] = Patched(@, original)]
             /\ ret' = Ret(op, c, n, Bool(TRUE), pre)
             /\ UNCHANGED <<rev, _method_injections, _injections, namespaces, ihist, threads>>

patch_method(c, n, hs) == Patch("patch_method", "method", c, n, hs)

patch_function(c, n, hs) == Patch("patch_function", "function", c, n, hs)

----------------------------------------------------------------------------
(* patch_method run by several threads at once.  The interpreter can switch *)
(* threads between any two statements, so a call is four steps: the read of *)
(* the current callable with the callable() test, the membership test on    *)
(* the registry, the registry write, and the setattr with the return.       *)

NotStarted == [pc |-> "idle", hs |-> None, original_method |-> None]

AtPc(t, pc) == threads[t].pc = pc

\* original_method = getattr(target_class, method_name, None); callable() test.
patch_read(t, c, n, hs) ==
    LET original_method == GetAttr(attrs, c, n)
    IN  /\ AtPc(t, "idle")
        /\ IF ~Callable(original_method)
           THEN /\ threads' = [threads EXCEPT ![t] = [@ EXCEPT !.pc = "done"]]
                /\ ret' = Ret("patch_method", c, n, Bool(FALSE), Lookup(attrs, c, n))
           ELSE /\ threads' = [threads EXCEPT ![t] =
                                  [pc |-> "check", hs |-> hs,
                                   original_method |-> original_method]]
                /\ UNCHANGED ret
        /\ UNCHANGED <<rev, attrs, _patches, _method_injections, _injections,
                       namespaces, nextId, hist, ihist>>

\* if patch_key not in _patches:
patch_check(t, c, n) ==
    /\ AtPc(t, "check")
    /\ threads' = [threads EXCEPT ![t].pc =
                      IF _patches[<<c, n>>] = Absent THEN "write" ELSE "install"]
    /\ UNCHANGED <<rev, attrs, _patches, _method_injections, _injections,
                   namespaces, nextId, ret, hist, ihist>>

\* Faulty variant: the registry write stores the callable the slot holds now.
patch_write_current(t, c, n) ==
    /\ AtPc(t, "write")
    /\ _patches' = [_patches EXCEPT ![<<c, n>>] = GetAttr(attrs, c, n)]
    /\ threads' = [threads EXCEPT ![t].pc = "install"]
    /\ UNCHANGED <<rev, attrs, _method_injections, _injections, namespaces,
                   nextId, ret, hist, ihist>>

\* _patches[patch_key] = original_method
patch_write(t, c, n) ==
    /\ AtPc(t, "write")
    /\ _patches' = [_patches EXCEPT ![<<c, n>>] = threads[t].original_method]
    /\ threads' = [threads EXCEPT ![t].pc = "install"]
    /\ UNCHANGED <<rev, attrs, _method_injections, _injections, namespaces,
                   nextId, ret, hist, ihist>>

\* setattr(target_class, method_name, patched_method); return True
patch_install(t, c, n) ==
    /\ AtPc(t, "install")
    /\ nextId < MaxObjects
    /\ attrs' = SetAttr(attrs, c, n,
                        Dispatcher(nextId + 1, "method", rev,
                                   threads[t].original_method, threads[t].hs))
    /\ nextId' = nextId + 1
    /\ hist' = [hist EXCEPT ![<<c, n>>] = Patched(@, threads[t].original_method)]
    /\ threads' = [threads EXCEPT ![t].pc = "done"]
    /\ ret' = Ret("patch_method", c, n, Bool(TRUE), Lookup(attrs, c, n))
    /\ UNCHANGED <<rev, _patches, _method_injections, _injections, namespaces, ihist>>

\* What unpatch returns when the identity has no record.
UnpatchMiss(r) == r = "harmonify"

\* Faulty variant: an unpatch takes off the top dispatcher only.
UnpatchOneLayer(op, c, n) ==
    LET pre == Lookup(attrs, c, n)
    IN  /\ _patches[<<c, n>>] # Absent
        /\ attrs' = SetAttr(attrs, c, n,
                            IF pre.k = "dispatcher" THEN pre.original
                            ELSE _patches[<<c, n>>])
        /\ _patches' = [_patches EXCEPT ![<<c, n>>] = Absent]
        /\ hist' = [hist EXCEPT ![<<c, n>>] = NoHistory]
        /\ ret' = Ret(op, c, n, Bool(TRUE), pre)
        /\ UNCHANGED <<rev, _method_injections, _injections, namespaces, nextId, ihist, threads>>

\* The body shared by unpatch_method, unpatch_function and Harmonify.unpatch.
Unpatch(op, c, n) ==
    LET pre == Lookup(attrs, c, n)
    IN  IF _patches[<<c, n>>] # Absent
        THEN /\ attrs' = SetAttr(attrs, c, n, _patches[<<c, n>>])
             /\ _patches' = [_patches EXCEPT ![<<c, n>>] = Absent]
             /\ hist' = [hist EXCEPT ![<<c, n>>] = NoHistory]
             /\ ret' = Ret(op, c, n, Bool(TRUE), pre)
             /\ UNCHANGED <<rev, _method_injections, _injections, namespaces, nextId, ihist, threads>>
        ELSE /\ ret' = Ret(op, c, n, Bool(UnpatchMiss(rev)), pre)
             /\ hist' = IF UnpatchMiss(rev)
                        THEN [hist EXCEPT ![<<c, n>>] = NoHistory] ELSE hist
             /\ UNCHANGED <<rev, attrs, _patches, _method_injections, _injections, namespaces, nextId, ihist, threads>>

unpatch_method(c, n) == rev = "core" /\ Unpatch("unpatch_method", c, n)

unpatch_function(c, n) == rev = "core" /\ Unpatch("unpatch_function", c, n)

unpatch(c, n) == rev = "harmonify" /\ Unpatch("unpatch", c, n)

create_method(c, n, body) ==
    /\ attrs' = SetAttr(attrs, c, n, body)
    /\ ret' = Ret("create_method", c, n, Bool(TRUE), Lookup(attrs, c, n))
    /\ UNCHANGED <<rev, _patches, _method_injections, _injections, namespaces, nextId, hist, ihist, threads>>

\* delattr deletes an attribute of the class itself and raises if it has none.
delete_method(c, n) ==
    IF attrs[<<c, n>>] = Absent
    THEN /\ ret' = Ret("delete_method", c, n, Error("AttributeError"), Lookup(attrs, c, n))
         /\ UNCHANGED <<rev, attrs, _patches, _method_injections, _injections, namespaces, nextId, hist, ihist, threads>>
    ELSE /\ attrs' = SetAttr(attrs, c, n, Absent)
         /\ ret' = Ret("delete_method", c, n, Bool(TRUE), Lookup(attrs, c, n))
         /\ UNCHANGED <<rev, _patches, _method_injections, _injections, namespaces, nextId, hist, ihist, threads>>

----------------------------------------------------------------------------
(* The injection engine: src/src/harmonify/injector/method_inject.py.       *)

\* ast.parse(code_to_inject).body; code_to_inject = None is the empty block.
NoCode   == <<>>
Snippet  == <<Stmt(1, "injected")>>

\* Faulty variant: the scan stops at the first statement at or before target_line.
InsertIndexFirst(body, target_line, index) ==
    IF index = 0 \/ body[1].line > target_line THEN 0 ELSE 1

\* The greatest index whose statement lies at or before target_line, 0 if none.
RECURSIVE InsertIndex(_, _, _)
InsertIndex(body, target_line, index) ==
    IF index = 0 THEN 0
    ELSE IF body[index].line <= target_line THEN index
    ELSE InsertIndex(body, target_line, index - 1)

\* CodeInjector.visit_FunctionDef: new_node.body[insert_index:insert_index] = block
Splice(body, insert_after_line, code) ==
    IF code = NoCode THEN body
    ELSE LET insert_index == InsertIndex(body, insert_after_line, Len(body))
         IN  SubSeq(body, 1, insert_index) \o code
                 \o SubSeq(body, insert_index + 1, Len(body))

\* One visit of CodeInjector.visit_FunctionDef to a function definition whose
\* body has no nested definitions: what it was given and the body it returns.
\* A statement that is itself a function definition: its def line, its name and
\* its own body.
Def(line, name, body) == [line |-> line, text |-> name, body |-> body]
IsDef(s) == "body" \in DOMAIN s

\* CodeInjector.visit(FunctionDef): generic_visit first, which runs
\* visit_FunctionDef on every function definition among the statements, then
\* the splice into this definition's own body.
RECURSIVE Visit(_, _, _)
Visit(body, insert_after_line, code) ==
    LET generic_visit ==
            [i \in 1..Len(body) |->
                IF IsDef(body[i])
                THEN [body[i] EXCEPT !.body = Visit(@, insert_after_line, code)]
                ELSE body[i]]
    IN  Splice(generic_visit, insert_after_line, code)

visit_FunctionDef(body, insert_after_line, code) ==
    /\ ret' = [op |-> "visit_FunctionDef", body |-> body,
               insert_after_line |-> insert_after_line, code |-> code,
               out |-> Visit(body, insert_after_line, code)]
    /\ UNCHANGED <<rev, attrs, _patches, _method_injections, _injections, namespaces, nextId, hist, ihist, threads>>

\* inspect.unwrap: the function whose source inspect.getsource reads.
RECURSIVE SourceOf(_)
SourceOf(o) ==
    IF o.k \in {"method", "staticmethod", "classmethod"} THEN SourceOf(o.f) ELSE o

\* What executing a def under its own decorator binds to the name.
Decorate(decor, f) ==
    CASE decor = "staticmethod" -> StaticMethod(f)
      [] decor = "classmethod"  -> ClassMethod(f)
      [] OTHER                  -> f

\* if is_classmethod: classmethod(new_method) elif is_staticmethod: staticmethod(...)
Rewrap(raw, new_method) ==
    CASE raw.k = "classmethod"  -> ClassMethod(new_method)
      [] raw.k = "staticmethod" -> StaticMethod(new_method)
      [] OTHER                  -> new_method

\* if inject_key not in _method_injections: _method_injections[inject_key] = ...
Track(reg, key, target_method, new_method) ==
    IF reg[key] = Absent
    THEN [reg EXCEPT ![key] = [pre |-> target_method, post |-> new_method]]
    ELSE reg

InjectFails(c, n, type) ==
    /\ ret' = Ret("inject_method", c, n, Error(type), Lookup(attrs, c, n))
    /\ UNCHANGED <<rev, attrs, _patches, _method_injections, _injections, namespaces, nextId, hist, ihist, threads>>

\* The history of an identity after an inject_method that returned true: n is 1
\* after the first injection since the last undo, 2 after every later one.
Injected(h, target_method) ==
    IF h.n = 0 THEN [n |-> 1, pre |-> target_method] ELSE [h EXCEPT !.n = 2]

InjectInstalls(c, n, target_method, new_method, created) ==
    /\ _method_injections' = Track(_method_injections, <<c, n>>, target_method, new_method)
    /\ attrs' = SetAttr(attrs, c, n, new_method)
    /\ nextId' = nextId + created
    /\ ihist' = [ihist EXCEPT ![<<c, n>>] = Injected(@, target_method)]
    /\ ret' = Ret("inject_method", c, n, Bool(TRUE), Lookup(attrs, c, n))
    /\ UNCHANGED <<rev, _patches, _injections, hist, threads>>

\* target_method.__globals__: the module's live namespace for a function of the
\* program's files, the copy it was executed in for a function the engine compiled.
ModuleDict(at) == [x \in Names |-> at[<<"Mod", x>>]]
Globals(f, at, ns) == IF f.origin = "file" THEN ModuleDict(at) ELSE ns[f.id]

\* exec(compiled_func, namespace): the namespace once the def has run in it.
Exec(namespace, name, obj) == [namespace EXCEPT ![name] = obj]

\* A text ast.parse rejects.
BadCode == <<Stmt(-1, "SyntaxError")>>

\* inspect.getsource finds the definition of a function of the program's files
\* and of a dispatcher (the def inside the wrap engine).
SourceFound(fn) == fn.k = "dispatcher" \/ fn.origin = "file"

\* stale: the text inspect.getsource finds for a function the engine compiled
\* is whatever the module's file holds at the compiled line numbers, or nothing
\* (OSError); when that text does not define the name, namespace[method_name] is
\* the binding the copied globals already hold.  That text may or may not hold a
\* function definition, so the injected text may or may not get parsed.
inject_method(c, n, insert_after_line, code, stale) ==
    LET raw           == Lookup(attrs, c, n)
        target_method == GetAttr(attrs, c, n)
        fn            == SourceOf(target_method)
        rebuilt       == Function(nextId + 1, fn.name, fn.params,
                                  Visit(fn.body, insert_after_line, code),
                                  "rebuilt", fn.decor)
    IN  IF raw = Absent THEN InjectFails(c, n, "AttributeError")
        ELSE IF ~IsFunction(fn) THEN InjectFails(c, n, "TypeError")
        ELSE IF ~SourceFound(fn) /\ ~stale THEN InjectFails(c, n, "OSError")
        ELSE \/ code = BadCode /\ InjectFails(c, n, "SyntaxError")
             \/ /\ SourceFound(fn) => code # BadCode
                /\ IF target_method.k = "staticmethod"
                   THEN InjectFails(c, n, "AttributeError")
                   ELSE IF fn.k = "dispatcher" \/ fn.name # n
                   THEN InjectFails(c, n, "KeyError")
                   ELSE IF ~SourceFound(fn)
                   THEN /\ InjectInstalls(c, n, target_method,
                                          Rewrap(raw, Decorate(fn.decor, fn)), 0)
                        /\ UNCHANGED namespaces
                   ELSE /\ nextId < MaxObjects
                        /\ InjectInstalls(c, n, target_method,
                                          Rewrap(raw, Decorate(fn.decor, rebuilt)), 1)
                        /\ namespaces' =
                              [namespaces EXCEPT ![nextId + 1] =
                                  Exec(Globals(fn, attrs, namespaces), n,
                                       Decorate(fn.decor, rebuilt))]

InjectFunctionFails(c, n, type) ==
    /\ ret' = Ret("inject_function", c, n, Error(type), Lookup(attrs, c, n))
    /\ UNCHANGED <<rev, attrs, _patches, _method_injections, _injections, namespaces,
                   nextId, hist, ihist, threads>>

\* inject_function ends without a return statement: it returns None.
InjectFunctionInstalls(c, n, target_function, new_function, created) ==
    /\ _injections' = Track(_injections, <<c, n>>, target_function, new_function)
    /\ attrs' = SetAttr(attrs, c, n, new_function)
    /\ nextId' = nextId + created
    /\ ret' = Ret("inject_function", c, n, None, Lookup(attrs, c, n))
    /\ UNCHANGED <<rev, _patches, _method_injections, hist, ihist, threads>>

\* function_patch.inject_function on a module attribute; stale as in inject_method.
inject_function(c, n, insert_after_line, code, stale) ==
    LET target_function == Lookup(attrs, c, n)
        rebuilt == Function(nextId + 1, target_function.name, target_function.params,
                            Visit(target_function.body, insert_after_line, code),
                            "rebuilt", target_function.decor)
    IN  IF target_function = Absent THEN InjectFunctionFails(c, n, "AttributeError")
        ELSE IF ~IsFunction(target_function) THEN InjectFunctionFails(c, n, "TypeError")
        ELSE IF ~SourceFound(target_function) /\ ~stale
        THEN InjectFunctionFails(c, n, "OSError")
        ELSE \/ code = BadCode /\ InjectFunctionFails(c, n, "SyntaxError")
             \/ /\ SourceFound(target_function) => code # BadCode
                /\ IF target_function.k = "dispatcher" \/ target_function.name # n
                   THEN InjectFunctionFails(c, n, "KeyError")
                   ELSE IF ~SourceFound(target_function)
                   THEN /\ InjectFunctionInstalls(c, n, target_function,
                                                  target_function, 0)
                        /\ UNCHANGED namespaces
                   ELSE /\ nextId < MaxObjects
                        /\ InjectFunctionInstalls(c, n, target_function, rebuilt, 1)
                        /\ namespaces' =
                              [namespaces EXCEPT ![nextId + 1] =
                                  Exec(Globals(target_function, attrs, namespaces),
                                       n, rebuilt)]

\* Faulty variant: a missing record is taken for one that holds nothing.
undo_method_inject_lenient(c, n) ==
    LET rec == _method_injections[<<c, n>>]
    IN  /\ attrs' = SetAttr(attrs, c, n, IF rec = Absent THEN Absent ELSE rec.pre)
        /\ ret' = Ret("undo_method_inject", c, n, Bool(rec # Absent), Lookup(attrs, c, n))
        /\ UNCHANGED <<rev, _patches, _method_injections, _injections, namespaces, nextId, hist, ihist, threads>>

\* _method_injections[inject_key] of a key the registry does not hold.
NotInjected == Error("KeyError")

undo_method_inject(c, n) ==
    LET pre == Lookup(attrs, c, n)
    IN  IF _method_injections[<<c, n>>] = Absent
        THEN /\ ret' = Ret("undo_method_inject", c, n, NotInjected, pre)
             /\ UNCHANGED <<rev, attrs, _patches, _method_injections, _injections, namespaces, nextId, hist, ihist, threads>>
        ELSE /\ attrs' = SetAttr(attrs, c, n, _method_injections[<<c, n>>].pre)
             /\ ihist' = [ihist EXCEPT ![<<c, n>>] = NoHistory]
             /\ ret' = Ret("undo_method_inject", c, n, Bool(TRUE), pre)
             /\ UNCHANGED <<rev, _patches, _method_injections, _injections, namespaces,
                            nextId, hist, threads>>

----------------------------------------------------------------------------
(* Calls of the program through the patched slots.                          *)

\* The object a call through the class (via = "class"), through an instance or
\* through the module gets to call.
Bind(raw, c, via) ==
    IF c \in Modules THEN raw
    ELSE DescrGet(raw, IF via = "instance" THEN Instance(c) ELSE None, c)

Invoke(raw, c, via, args) == Call(Bind(raw, c, via), args)

CallArgs == {<<>>, <<Value>>, <<Instance("Base"), Value>>}

call(c, n, via, args) ==
    LET raw == Lookup(attrs, c, n)
        out == Invoke(raw, c, via, args)
    IN  /\ raw # Absent
        /\ ret' = [op |-> "call", target |-> <<c, n>>, out |-> out.val, pre |-> raw,
                   via |-> via, args |-> args, trace |-> out.trace]
        /\ UNCHANGED <<rev, attrs, _patches, _method_injections, _injections, namespaces, nextId, hist, ihist, threads>>

----------------------------------------------------------------------------
(* The specifications.                                                      *)

InitAttrs(kind) ==
    [i \in Identities |->
        CASE i = <<"Base", "m">>       -> MethodOfKind(kind)
          [] i = <<"Base", "d">>       -> Data
          [] i = <<"Mod", "get_info">> -> GetInfo
          [] i = <<"Mod", "d">>        -> Data
          [] OTHER                     -> Absent]

Init ==
    /\ rev \in Revisions
    /\ \E kind \in Kinds : attrs = InitAttrs(kind)
    /\ _patches = [i \in Identities |-> Absent]
    /\ _method_injections = [i \in Identities |-> Absent]
    /\ _injections = [i \in Identities |-> Absent]
    /\ namespaces = [id \in 1..MaxObjects |-> Absent]
    /\ nextId = 0
    /\ ret = Ret("import", "Mod", "z", None, Absent)
    /\ hist = [i \in Identities |-> NoHistory]
    /\ ihist = [i \in Identities |-> NoHistory]
    /\ threads = [t \in Threads |-> NotStarted]

\* The identities the operations are tried on: a method, inherited or not, a
\* function, an attribute that is not callable (d) and one that is not there (z;
\* m too once delete_method has removed it).
MethodTargets   == {<<"Base", "m">>, <<"Sub", "m">>, <<"Base", "d">>}
FunctionTargets == {<<"Mod", "get_info">>, <<"Mod", "z">>}

\* The wrap engine with its registry: patches, reversals, created and deleted
\* methods.
Next ==
    \/ \E t \in MethodTargets, hs \in FewHookSets : patch_method(t[1], t[2], hs)
    \/ \E t \in FunctionTargets, hs \in FewHookSets : patch_function(t[1], t[2], hs)
    \/ \E t \in MethodTargets : unpatch_method(t[1], t[2])
    \/ \E t \in FunctionTargets : unpatch_function(t[1], t[2])
    \/ \E t \in MethodTargets \cup FunctionTargets : unpatch(t[1], t[2])
    \/ \E c \in Classes : create_method(c, "m", NewBody)
    \/ \E c \in Classes : delete_method(c, "m")

Spec == Init /\ [][Next]_vars

\* How many dispatchers the call specification stacks.
MaxDepth == 1

\* Calls through dispatchers built from every hook set.
NextCall ==
    \/ \E hs \in AllHookSets : nextId < MaxDepth /\ patch_method("Base", "m", hs)
    \/ \E hs \in AllHookSets : nextId < MaxDepth /\ patch_function("Mod", "get_info", hs)
    \/ \E via \in {"class", "instance"}, args \in CallArgs : call("Base", "m", via, args)
    \/ \E args \in CallArgs : call("Mod", "get_info", "module", args)

SpecCall == Init /\ [][NextCall]_vars

\* The injection engine beside the wrap engine.
InjectTargets == {<<"Base", "m">>, <<"Sub", "m">>, <<"Sub", "z">>}
InjectInputs  == {<<0, NoCode>>, <<3, Snippet>>, <<0, BadCode>>}

NextInject ==
    \/ \E t \in InjectTargets, i \in InjectInputs, stale \in BOOLEAN :
          inject_method(t[1], t[2], i[1], i[2], stale)
    \/ \E t \in InjectTargets : undo_method_inject(t[1], t[2])
    \/ \E c \in Classes : patch_method(c, "m", HookSet(None, PostfixHook, None))
    \/ \E c \in Classes : unpatch_method(c, "m")
    \/ \E c \in Classes : unpatch(c, "m")

\* Patches stacked on one method, with hooks that all continue, called and
\* unpatched.
NestHookSets ==
    {HookSet(p, q, None) :
        p \in {h \in PrefixHooks : h.flow = CONTINUE_EXEC} \cup {None},
        q \in {PostfixHook, None}}

NextNest ==
    \/ \E hs \in NestHookSets : patch_method("Base", "m", hs)
    \/ \E via \in {"class", "instance"}, args \in CallArgs : call("Base", "m", via, args)
    \/ unpatch_method("Base", "m")
    \/ unpatch("Base", "m")

SpecNest == Init /\ [][NextNest]_vars

\* Concurrent patch_method calls on one identity, one call per thread.  Every
\* call runs to its end: no step of patch_method blocks.
ThreadStep(t) ==
    \/ \E hs \in FewHookSets : patch_read(t, "Base", "m", hs)
    \/ patch_check(t, "Base", "m")
    \/ patch_write(t, "Base", "m")
    \/ patch_install(t, "Base", "m")

NextRace == \E t \in Threads : ThreadStep(t)

SpecRace == Init /\ [][NextRace]_vars /\ \A t \in Threads : WF_vars(ThreadStep(t))

SpecInject == Init /\ [][NextInject]_vars

\* Function injection (src/src/harmonify/injector/function_patch.py) beside method
\* injection and the wrap engine's function patches.
FunctionInjectTargets == {<<"Mod", "get_info">>, <<"Mod", "d">>, <<"Mod", "z">>}

NextFunctionInject ==
    \/ \E t \in FunctionInjectTargets, i \in InjectInputs, stale \in BOOLEAN :
          inject_function(t[1], t[2], i[1], i[2], stale)
    \/ \E i \in InjectInputs, stale \in BOOLEAN :
          inject_method("Base", "m", i[1], i[2], stale)
    \/ \E t \in InjectTargets : undo_method_inject(t[1], t[2])
    \/ patch_function("Mod", "get_info", HookSet(None, PostfixHook, None))
    \/ unpatch_function("Mod", "get_info")
    \/ unpatch("Mod", "get_info")

SpecFunctionInject == Init /\ [][NextFunctionInject]_vars

\* The bodies the splice is tried on: up to MaxLen statements on lines 1..MaxLine,
\* in source order (two statements can share a line), each with its own text.
MaxLen  == 3
MaxLine == 7
Label(i) == <<"s1", "s2", "s3", "s4", "s5">>[i]
Bodies ==
    UNION {{[i \in 1..n |-> Stmt(ls[i], Label(i))] :
               ls \in {f \in [1..n -> 1..MaxLine] :
                          \A i \in 1..n : i < n => f[i] <= f[i + 1]}} :
           n \in 0..MaxLen}
Block2 == <<Stmt(1, "injected"), Stmt(2, "injected2")>>

\* A parsed function definition, an anchor line and a block await the visit.
InitSplice ==
    /\ rev \in Revisions
    /\ attrs = InitAttrs("function")
    /\ _patches = [i \in Identities |-> Absent]
    /\ _method_injections = [i \in Identities |-> Absent]
    /\ _injections = [i \in Identities |-> Absent]
    /\ namespaces = [id \in 1..MaxObjects |-> Absent]
    /\ nextId = 0
    /\ hist = [i \in Identities |-> NoHistory]
    /\ ihist = [i \in Identities |-> NoHistory]
    /\ threads = [t \in Threads |-> NotStarted]
    /\ \E body \in Bodies, insert_after_line \in 0..(MaxLine + 1),
          code \in {NoCode, Snippet, Block2} :
           ret = [op |-> "parse", body |-> body,
                  insert_after_line |-> insert_after_line, code |-> code, out |-> None]

NextSplice ==
    ret.op = "parse" /\ visit_FunctionDef(ret.body, ret.insert_after_line, ret.code)

SpecSplice == InitSplice /\ [][NextSplice]_vars

\* How deep function definitions nest inside the parsed definition.
MaxNesting == 2

\* Bodies whose first statement is on line first, with function definitions
\* nested up to depth deep: a statement, a statement and a nested definition, or
\* a nested definition alone.
RECURSIVE NestedBodies(_, _)
NestedBodies(depth, first) ==
    IF depth = 0 THEN {<<Stmt(first, "s")>>}
    ELSE {<<Stmt(first, "s")>>}
         \cup {<<Stmt(first, "s"), Def(first + 1, "inner", b)>> :
                  b \in NestedBodies(depth - 1, first + 2)}
         \cup {<<Def(first, "inner", b)>> : b \in NestedBodies(depth - 1, first + 1)}

InitNestedSplice ==
    /\ rev \in Revisions
    /\ attrs = InitAttrs("function")
    /\ _patches = [i \in Identities |-> Absent]
    /\ _method_injections = [i \in Identities |-> Absent]
    /\ _injections = [i \in Identities |-> Absent]
    /\ namespaces = [id \in 1..MaxObjects |-> Absent]
    /\ nextId = 0
    /\ hist = [i \in Identities |-> NoHistory]
    /\ ihist = [i \in Identities |-> NoHistory]
    /\ threads = [t \in Threads |-> NotStarted]
    /\ \E body \in NestedBodies(MaxNesting, 2), insert_after_line \in 0..(MaxLine + 1),
          code \in {NoCode, Snippet, Block2} :
           ret = [op |-> "parse", body |-> body,
                  insert_after_line |-> insert_after_line, code |-> code, out |-> None]

SpecNestedSplice == InitNestedSplice /\ [][NextSplice]_vars

----------------------------------------------------------------------------
(* The claims.                                                              *)

PatchOps   == {"patch_method", "patch_function"}
UnpatchOps == {"unpatch_method", "unpatch_function", "unpatch"}
Vias       == {"class", "instance"}

\* The raw attribute the last operation's target resolves to now.
Slot == Lookup(attrs, ret.target[1], ret.target[2])

\* C1: a patch_method that returns true on an identity without a PatchRecord,
\* followed by the unpatch of that identity, leaves every call through the
\* slot, by the class and by an instance, with the outcome it had before the
\* patch.
C1_RoundTripRestoresCalls ==
    [][\A t \in MethodTargets :
        (/\ ret.op = "patch_method" /\ ret.target = t /\ ret.out = Bool(TRUE)
         /\ hist[t].n = 1
         /\ ret'.op \in UnpatchOps /\ ret'.target = t)
        => \A via \in Vias, args \in CallArgs :
              Invoke(Lookup(attrs', t[1], t[2]), t[1], via, args)
                  = Invoke(ret.pre, t[1], via, args)]_vars

\* C2: once an identity has been patched twice or more with no unpatch in
\* between, its PatchRecord is the callable getattr resolved before the first of
\* those patches, and an unpatch binds the slot to that callable.
C2_IdempotentCapture ==
    [][\A t \in Identities :
        /\ hist'[t].n >= 2 => _patches'[t] = hist'[t].pre
        /\ (hist[t].n >= 2 /\ ret'.op \in UnpatchOps /\ ret'.target = t)
              => /\ attrs'[t] = hist[t].pre
                 /\ attrs[t].k = "dispatcher" => attrs'[t] # attrs[t]]_vars

\* C2 witness: an unpatch has just taken a dispatcher stacked on a dispatcher
\* off a slot and left the program's function there.
C2_Witness ==
    /\ ret.op \in UnpatchOps /\ ret.out = Bool(TRUE)
    /\ ret.pre.k = "dispatcher" /\ ret.pre.original.k = "dispatcher"
    /\ ret.pre.original.original = attrs[ret.target]
    /\ attrs[ret.target].k = "function"

\* The top dispatcher a call went through, and the events it ran itself.
Entered == ret.via = "instance" \/ ret.args # <<>> \/ Slot.form = "function"
BoundArgs ==
    IF ret.via = "instance" THEN <<Instance(ret.target[1])>> \o ret.args ELSE ret.args
At(ev) == {i \in 1..Len(ret.trace) :
              ret.trace[i].ev = ev /\ ret.trace[i].by = ByDispatcher(Slot)}

\* C3: a call through a method dispatcher with a prefix and a postfix hook and no
\* replace hook, whose prefix returns the tuple its revision unpacks: under STOP
\* the prefix is all that runs; under CONTINUE_WITHOUT_POSTFIX the original is
\* called and the postfix is not; under CONTINUE the original is called and, when
\* it returns, the postfix; the prefix comes before the original and the original
\* before the postfix.
C3_FlowStateGating ==
    (/\ ret.op = "call" /\ Slot.k = "dispatcher" /\ Slot.form = "method" /\ Entered
     /\ Slot.replace = None /\ Slot.prefix # None /\ Slot.postfix # None
     /\ Slot.prefix.shape = PrefixShape(Slot.rev))
    => /\ At("prefix") = {1}
       /\ Slot.prefix.flow = STOP_EXEC =>
             /\ Len(ret.trace) = 1
             /\ ret.out = Result(Slot.prefix, BoundArgs)
       /\ Slot.prefix.flow = CONTINUE_WITHOUT_POSTFIX =>
             At("original") = {2} /\ At("postfix") = {}
       /\ Slot.prefix.flow = CONTINUE_EXEC =>
             /\ At("original") = {2}
             /\ IF ret.out.k = "error" THEN At("postfix") = {}
                ELSE At("postfix") = {Len(ret.trace)} /\ Len(ret.trace) > 2

\* C3 witness: such a call under CONTINUE_WITHOUT_POSTFIX has returned the
\* original's result.
C3_Witness ==
    /\ ret.op = "call" /\ Slot.k = "dispatcher" /\ Slot.form = "method" /\ Entered
    /\ Slot.replace = None /\ Slot.prefix # None /\ Slot.postfix # None
    /\ Slot.prefix.shape = PrefixShape(Slot.rev)
    /\ Slot.prefix.flow = CONTINUE_WITHOUT_POSTFIX
    /\ ret.out.k = "result" /\ ret.out.by = ByCode(Slot.original)

\* C4: a call through a dispatcher built with a replace hook runs the replace
\* hook on the call's arguments and nothing else, and returns its result.
C4_ReplaceOverrides ==
    (ret.op = "call" /\ Slot.k = "dispatcher" /\ Entered /\ Slot.replace # None)
    => /\ ret.trace = <<Event("replace", ByDispatcher(Slot), BoundArgs)>>
       /\ ret.out = Result(Slot.replace, BoundArgs)

\* C4 witness: such a call through a dispatcher that also has a prefix and a
\* postfix hook.
C4_Witness ==
    /\ ret.op = "call" /\ Slot.k = "dispatcher" /\ Entered /\ Slot.replace # None
    /\ Slot.prefix # None /\ Slot.postfix # None
    /\ ret.out = Result(ReplaceHook, BoundArgs)

\* C5: a call of a module function patched by patch_function with a postfix hook
\* only calls the original with the call's arguments and returns
\* postfix(original result, call arguments).
C5_PostfixOnFunction ==
    (/\ ret.op = "call" /\ Slot.k = "dispatcher" /\ Slot.form = "function"
     /\ Slot.prefix = None /\ Slot.replace = None /\ Slot.postfix # None
     /\ Slot.original.k = "function" /\ Len(ret.args) = Slot.original.params)
    => LET result == Result(ByCode(Slot.original), ret.args)
       IN  /\ ret.out = Result(Slot.postfix, <<result>> \o ret.args)
           /\ ret.trace = <<Event("original", ByDispatcher(Slot), ret.args),
                            Event("body", ByCode(Slot.original), ret.args),
                            Event("postfix", ByDispatcher(Slot),
                                  <<result>> \o ret.args)>>

\* C6: an unpatch of an identity that has no PatchRecord returns false and
\* changes neither the attributes nor the registry.
C6_UnpatchWithoutRecord ==
    [][\A t \in Identities :
        (ret'.op \in UnpatchOps /\ ret'.target = t /\ _patches[t] = Absent)
        => ret'.out = Bool(FALSE) /\ attrs' = attrs /\ _patches' = _patches]_vars

\* C7: patch_method and patch_function return a boolean; on an attribute that is
\* absent or not callable they return false and change neither the attributes
\* nor the registry; they return true exactly when they installed a new
\* dispatcher in the target's slot.
C7_PatchReportsBoolean ==
    [][\A t \in Identities :
        (ret'.op \in PatchOps /\ ret'.target = t)
        => LET raw == Lookup(attrs, t[1], t[2])
           IN  /\ ret'.out \in {Bool(TRUE), Bool(FALSE)}
               /\ (raw = Absent \/ raw = Data)
                     => ret'.out = Bool(FALSE) /\ attrs' = attrs /\ _patches' = _patches
               /\ ret'.out = Bool(TRUE)
                     <=> /\ attrs'[t].k = "dispatcher" /\ attrs'[t].id = nextId'
                         /\ nextId' = nextId + 1
                         /\ attrs'[t].original = GetAttr(attrs, t[1], t[2])]_vars

\* C7 witness: a patch of an absent attribute has returned false.
C7_Witness ==
    ret.op \in PatchOps /\ ret.out = Bool(FALSE) /\ ret.pre = Absent /\ nextId > 0

\* C8: the PatchRecord of an identity is written only by the first patch that
\* returns true since the last unpatch, with the callable bound at that moment;
\* it is removed exactly by an unpatch that finds it; an unpatch that finds none
\* returns false.
C8_RecordLifecycle ==
    [][\A t \in Identities :
        /\ (_patches'[t] # _patches[t] /\ _patches'[t] # Absent)
              => /\ ret'.op \in PatchOps /\ ret'.target = t /\ ret'.out = Bool(TRUE)
                 /\ hist[t].n = 0 /\ _patches[t] = Absent
                 /\ _patches'[t] = GetAttr(attrs, t[1], t[2])
        /\ (_patches[t] # Absent /\ _patches'[t] = Absent)
              <=> (/\ ret'.op \in UnpatchOps /\ ret'.target = t
                   /\ ret'.out = Bool(TRUE) /\ _patches[t] # Absent)
        /\ (ret'.op \in UnpatchOps /\ ret'.target = t /\ _patches[t] = Absent)
              => ret'.out = Bool(FALSE)]_vars

\* The container whose own attribute an identity resolves to.
RECURSIVE OwnerIn(_, _, _)
OwnerIn(at, mro, n) ==
    IF mro = <<>> THEN "none"
    ELSE IF at[<<Head(mro), n>>] # Absent THEN Head(mro)
    ELSE OwnerIn(at, Tail(mro), n)
Owner(at, t) == OwnerIn(at, MRO(t[1]), t[2])

\* C9: two identities that resolve to the same slot never have different
\* captured originals in the registry at the same time.
C9_OneOriginalPerSlot ==
    \A s, t \in Identities :
        (/\ s[2] = t[2] /\ Owner(attrs, s) # "none" /\ Owner(attrs, s) = Owner(attrs, t)
         /\ _patches[s] # Absent /\ _patches[t] # Absent)
        => _patches[s] = _patches[t]

\* C10: inject_method that returns true and whose InjectionRecord holds the
\* callable that injection found, followed by undo_method_inject on the same
\* identity, leaves the identity resolving to the very object it resolved to
\* before the injection, wrapper included.
C10_InjectUndoRestores ==
    [][\A t \in InjectTargets :
        (/\ ret.op = "inject_method" /\ ret.target = t /\ ret.out = Bool(TRUE)
         /\ _method_injections[t].pre = DescrGet(ret.pre, None, t[1])
         /\ ret'.op = "undo_method_inject" /\ ret'.target = t)
        => Lookup(attrs', t[1], t[2]) = ret.pre]_vars

\* The statements of a body lie on strictly increasing lines.
StrictlyIncreasing(body) ==
    \A i \in 1..Len(body) : i < Len(body) => body[i].line < body[i + 1].line

\* The number of leading statements the block goes after: the highest index
\* whose statement lies at or before the line, 0 when there is none.
Anchor(body, line) ==
    LET at == {j \in 1..Len(body) : body[j].line <= line}
    IN  IF at = {} THEN 0 ELSE CHOOSE j \in at : \A i \in at : i <= j

\* C11: for a body on strictly increasing lines and a block that is not empty,
\* the new body is the statements up to the anchor, then the whole block in its
\* own order, then the remaining statements; with lines 1, 3, 7 the block follows
\* two statements for insert_after_line = 3 and none for insert_after_line = 0.
C11_AnchorResolution ==
    (ret.op = "visit_FunctionDef" /\ ret.code # NoCode /\ StrictlyIncreasing(ret.body))
    => LET i == Anchor(ret.body, ret.insert_after_line)
           lines == [j \in 1..Len(ret.body) |-> ret.body[j].line]
       IN  /\ ret.out = SubSeq(ret.body, 1, i) \o ret.code
                            \o SubSeq(ret.body, i + 1, Len(ret.body))
           /\ (lines = <<1, 3, 7>> /\ ret.insert_after_line = 3)
                 => SubSeq(ret.out, 3, 2 + Len(ret.code)) = ret.code
           /\ ret.insert_after_line = 0
                 => SubSeq(ret.out, 1, Len(ret.code)) = ret.code

\* C11 witness: a two statement block has gone between the statements on lines
\* 3 and 7 of a body on lines 1, 3, 7.
C11_Witness ==
    /\ ret.op = "visit_FunctionDef" /\ ret.code = Block2 /\ ret.insert_after_line = 3
    /\ Len(ret.body) = 3 /\ ret.body[1].line = 1 /\ ret.body[2].line = 3
    /\ ret.body[3].line = 7
    /\ ret.out = <<ret.body[1], ret.body[2]>> \o Block2 \o <<ret.body[3]>>

\* The wrapper kind inject_method detects on a raw attribute.
WrapperKind(raw) ==
    IF raw.k \in {"classmethod", "staticmethod"} THEN raw.k ELSE "function"

\* The kind a function's source declares it with.
DeclaredKind(f) == IF f.decor = "" THEN "function" ELSE f.decor

\* C12: an inject_method that returns true stores an attribute of the kind the
\* method is declared with (staticmethod, classmethod or plain function), and
\* the kind of the stored attribute is the same before and after the injection.
C12_WrapperKindPreserved ==
    [][\A t \in InjectTargets :
        (ret'.op = "inject_method" /\ ret'.target = t /\ ret'.out = Bool(TRUE))
        => LET before == Lookup(attrs, t[1], t[2])
               after  == Lookup(attrs', t[1], t[2])
           IN  /\ WrapperKind(after) = DeclaredKind(SourceOf(before))
               /\ WrapperKind(after) = WrapperKind(before)]_vars

\* C13: an undo_method_inject that returns true leaves the identity without an
\* InjectionRecord, and the record a later inject_method leaves holds the
\* callable bound when that injection ran.
C13_RecordDeletedOnUndo ==
    [][\A t \in InjectTargets :
        /\ (ret'.op = "undo_method_inject" /\ ret'.target = t /\ ret'.out = Bool(TRUE))
              => _method_injections'[t] = Absent
        /\ (/\ ret.op = "undo_method_inject" /\ ret.target = t /\ ret.out = Bool(TRUE)
            /\ ret'.op = "inject_method" /\ ret'.target = t /\ ret'.out = Bool(TRUE))
              => _method_injections'[t].pre = GetAttr(attrs, t[1], t[2])]_vars

\* C14: undo_method_inject on an identity without an InjectionRecord ends in
\* false or in the NotInjected outcome and leaves the attributes and both
\* registries as they were.
C14_UndoWithoutRecord ==
    [][\A t \in InjectTargets :
        (ret'.op = "undo_method_inject" /\ ret'.target = t
         /\ _method_injections[t] = Absent)
        => /\ ret'.out \in {Bool(FALSE), NotInjected}
           /\ attrs' = attrs
           /\ _method_injections' = _method_injections /\ _patches' = _patches]_vars

\* C14 witness: once an engine has patched or injected something, an undo on an
\* identity that holds a method and no InjectionRecord has ended in NotInjected.
C14_Witness ==
    /\ ret.op = "undo_method_inject" /\ ret.out = NotInjected
    /\ _method_injections[ret.target] = Absent
    /\ ret.pre # Absent /\ nextId > 0

\* What an injection through container c under name n reads as its source.
InjectSource(c, n) ==
    IF c \in Modules THEN Lookup(attrs, c, n) ELSE SourceOf(GetAttr(attrs, c, n))

\* The injection cannot be carried out: no source text of the target exists (no
\* attribute, not a function, a function compiled from a rebuilt tree), the
\* injected text does not parse, or the source does not define the name.
CannotInject(c, n, code) ==
    LET fn == InjectSource(c, n)
    IN  \/ Lookup(attrs, c, n) = Absent
        \/ ~IsFunction(fn)
        \/ fn.k = "dispatcher"
        \/ fn.origin # "file"
        \/ fn.name # n
        \/ code = BadCode

InjectStep(c, n, insert_after_line, code, stale) ==
    IF c \in Modules THEN inject_function(c, n, insert_after_line, code, stale)
    ELSE inject_method(c, n, insert_after_line, code, stale)

\* C15: an injection that cannot be carried out (source unavailable, injected
\* text does not parse, rebuilt tree does not define the name) ends in an error
\* outcome, and an injection that ends in an error outcome leaves every slot and
\* both injection registries unchanged.
C15_InjectionErrors ==
    [][\A t \in Identities, i \in InjectInputs, stale \in BOOLEAN :
        InjectStep(t[1], t[2], i[1], i[2], stale) =>
            /\ CannotInject(t[1], t[2], i[2]) => ret'.out.k = "error"
            /\ ret'.out.k = "error" =>
                  /\ attrs' = attrs
                  /\ _method_injections' = _method_injections
                  /\ _injections' = _injections]_vars


\* C16: a call through a method dispatcher without a replace hook whose prefix
\* returns the pair (result, FlowState) does not fail on that pair, and when the
\* pair's flow state is STOP the call returns the prefix's result and the prefix
\* is all that ran: neither the original nor its body.
C16_PairPrefixAccepted ==
    (/\ ret.op = "call" /\ Slot.k = "dispatcher" /\ Slot.form = "method" /\ Entered
     /\ Slot.replace = None /\ Slot.prefix # None /\ Slot.prefix.shape = 2)
    => /\ ret.out # Error("ValueError")
       /\ Slot.prefix.flow = STOP_EXEC =>
             /\ ret.out = Result(Slot.prefix, BoundArgs)
             /\ ret.trace = <<Event("prefix", ByDispatcher(Slot), BoundArgs)>>

\* The arguments a dispatcher hands its postfix hook for working result w.
PostfixArgs(d, args, w) ==
    IF d.form = "method" THEN <<Head(args), w>> \o Tail(args) ELSE <<w>> \o args

\* C17: in a call through a dispatcher, the original is invoked on exactly the
\* call's arguments, and the postfix on the working result (what the original
\* returns on those arguments) followed by the call's arguments.
C17_OriginalArguments ==
    (ret.op = "call" /\ Slot.k = "dispatcher" /\ Entered)
    => /\ \A i \in At("original") : ret.trace[i].args = BoundArgs
       /\ \A i \in At("postfix") :
             /\ At("original") # {}
             /\ ret.trace[i].args =
                   PostfixArgs(Slot, BoundArgs, Call(Slot.original, BoundArgs).val)


\* The hooks and bodies a call ran, in order: which kind, run by whom.
RECURSIVE Ran(_)
Ran(trace) ==
    IF trace = <<>> THEN <<>>
    ELSE IF Head(trace).ev = "original" THEN Ran(Tail(trace))
    ELSE <<<<Head(trace).ev, Head(trace).by>>>> \o Ran(Tail(trace))

\* A dispatcher with a prefix its revision unpacks, a postfix and no replace hook.
FullyHooked(d) ==
    /\ d.replace = None /\ d.postfix # None
    /\ d.prefix # None /\ d.prefix.shape = PrefixShape(d.rev)
    /\ d.prefix.flow = CONTINUE_EXEC

\* The slot holds a dispatcher patched over a dispatcher patched over a callable
\* that is not a dispatcher, both fully hooked.
Nested(slot) ==
    /\ slot.k = "dispatcher" /\ slot.original.k = "dispatcher"
    /\ slot.original.original.k # "dispatcher"
    /\ FullyHooked(slot) /\ FullyHooked(slot.original)

\* C18: with two fully hooked patches stacked on a method, the registry holds the
\* callable under both; a call in which the original returns runs prefix2,
\* prefix1, the original's body, postfix1, postfix2 in that order; and one
\* unpatch binds the slot to the callable under both dispatchers.
C18_NestedDispatchers ==
    [][LET t    == <<"Base", "m">>
           now  == attrs[t]
           slot == attrs'[t]
       IN  /\ Nested(slot) => _patches'[t] = slot.original.original
           /\ (Nested(slot) /\ ret'.op = "call" /\ ret'.out.k # "error") =>
                 Ran(ret'.trace) =
                    <<<<"prefix", ByDispatcher(slot)>>,
                      <<"prefix", ByDispatcher(slot.original)>>,
                      <<"body", ByCode(SourceOf(slot.original.original))>>,
                      <<"postfix", ByDispatcher(slot.original)>>,
                      <<"postfix", ByDispatcher(slot)>>>>
           /\ (Nested(now) /\ ret'.op \in UnpatchOps) =>
                 /\ ret'.out = Bool(TRUE)
                 /\ slot = now.original.original
                 /\ _patches'[t] = Absent]_vars

\* C18 witness: a call through two stacked, fully hooked dispatchers has returned
\* the outer postfix's result.
C18_Witness ==
    /\ ret.op = "call" /\ ret.target = <<"Base", "m">> /\ Nested(Slot)
    /\ ret.out.k = "result" /\ ret.out.by = Slot.postfix
    /\ Len(Ran(ret.trace)) = 5


\* C19: once an identity has been injected twice or more with no undo in
\* between, its InjectionRecord holds as pre-injection callable the one getattr
\* resolved before the first of those injections, and an undo_method_inject
\* binds the slot to that callable.
C19_SingleCaptureInjection ==
    [][\A t \in Identities :
        /\ ihist'[t].n >= 2 => _method_injections'[t].pre = ihist'[t].pre
        /\ (ihist[t].n >= 2 /\ ret'.op = "undo_method_inject" /\ ret'.target = t)
              => attrs'[t] = ihist[t].pre]_vars


\* The functions compiled from a rebuilt tree that slots are bound to in at.
BoundRebuilt(at) ==
    {SourceOf(at[t]) : t \in {u \in Identities : SourceOf(at[u]).k = "function"
                                                   /\ SourceOf(at[u]).origin = "rebuilt"}}

\* C20: every function compiled from a rebuilt tree that a slot is bound to
\* resolves each global name, other than the one its own definition binds, to
\* the value that name has in the live namespace of the module, where the
\* original resolves it; and an injection changes no binding of that live
\* namespace other than the target slot.
C20_GlobalsOfRebuilt ==
    [][/\ \A f \in BoundRebuilt(attrs') : \A x \in Names \ {f.name} :
             Globals(f, attrs', namespaces')[x] = ModuleDict(attrs')[x]
       /\ ret'.op \in {"inject_method", "inject_function"} =>
             \A x \in Names : <<"Mod", x>> # ret'.target =>
                 ModuleDict(attrs')[x] = ModuleDict(attrs)[x]]_vars


\* The callables getattr resolves Base.m to in a program nothing has patched.
Unpatched == {GetAttr(InitAttrs(kind), "Base", "m") : kind \in Kinds}

\* The registry holds a dispatcher as the original of Base.m.
RegistryHoldsDispatcher == _patches[<<"Base", "m">>].k = "dispatcher"

\* C21 as stated: concurrent patch_method calls on one identity reach a state
\* where the registry holds an already patched dispatcher as its original.
C21_RegistryCorrupted == <>RegistryHoldsDispatcher

\* C21 amended: in every interleaving of concurrent patch_method calls on one
\* identity the registry holds nothing or the callable the identity resolved to
\* before the calls, never a dispatcher; and a dispatcher installed by a call
\* that read the slot before another call's install wraps that same callable.
C21_RegistryKeepsOriginal ==
    /\ ~RegistryHoldsDispatcher
    /\ _patches[<<"Base", "m">>] \in Unpatched \cup {Absent}
    /\ \A t \in Threads :
          threads[t].pc \in {"install", "done"} /\ threads[t].hs # None
              => _patches[<<"Base", "m">>] # Absent

\* C21 witness: two calls have both returned true after both read the slot
\* before either installed; the slot holds the later dispatcher alone, wrapping
\* the callable the registry recorded.
C21_Witness ==
    /\ \A t \in Threads : threads[t].pc = "done"
    /\ nextId = 2
    /\ attrs[<<"Base", "m">>].k = "dispatcher"
    /\ attrs[<<"Base", "m">>].original = _patches[<<"Base", "m">>]


\* What the class body of Base binds m to, for each way m can be declared.
Declared == {MethodOfKind(kind) : kind \in Kinds}

\* Every patch of the identity has been unpatched and every injection undone.
AllReverted(t) == hist[t].n = 0 /\ _patches[t] = Absent /\ ihist[t].n = 0

\* C22: whenever every patch of Base.m has been unpatched and every injection
\* into it undone, in whatever order, the slot is bound to the object the class
\* body bound it to.
C22_CrossEngineReversal ==
    AllReverted(<<"Base", "m">>) => attrs[<<"Base", "m">>] \in Declared


\* C23: one visit of a parsed definition puts the block into the definition's
\* own top-level body, once, and nowhere else: every statement of the body,
\* nested function definitions with their bodies included, is the statement it
\* was.
C23_SingleSplice ==
    (ret.op = "visit_FunctionDef" /\ ret.code # NoCode)
    => ret.out = Splice(ret.body, ret.insert_after_line, ret.code)


====
